---- MODULE Spec2Model ----
(***************************************************************************)
(* The scoring calculators of redistricting/calculators.py: CalculatorBase *)
(* (result slot, argument dictionary, get_value, html) and its subclasses  *)
(* Schwartzberg, Sum, Percent, Threshold and Range.                        *)
(*                                                                         *)
(* An instance is an entry of cls/arg_dict/result.  Python attribute       *)
(* lookup is modelled with a heap of dictionary objects: arg_dict[i] is    *)
(* the identity of the dictionary that `self.arg_dict` evaluates to, and   *)
(* dicts[id] is that dictionary's content.                                 *)
(*                                                                         *)
(* Units: a geometry's area and length are kept in multiples of pi, so     *)
(* that sqrt(area / pi) and 2 * pi * r stay within the integers.           *)
(* Floats are kept as reduced fractions n/d.                               *)
(***************************************************************************)
EXTENDS Integers, Sequences, FiniteSets, TLC

VARIABLES cls, arg_dict, dicts, result, call, ret

vars == <<cls, arg_dict, dicts, result, call, ret>>

(***************************************************************************)
(* Bounds of the model.                                                    *)
(***************************************************************************)
\* measurements (ComputedCharacteristic rows) attached to a district that is
\* passed to compute or get_value directly
MaxCC == 2
\* measurements attached to each district of a plan (a plan holds several
\* districts, so its districts carry fewer rows than a district passed alone)
MaxPlanCC == 1
\* districts of one plan
MaxDistricts == 2
\* largest stored measurement value
MaxNumber == 2
\* largest N of an argument name valueN that the configuration supplies
MaxArgs == 3

(***************************************************************************)
(* Values.                                                                 *)
(***************************************************************************)
\* what get_value returns: None, a literal (the configuration's string) or
\* the `number` column of a ComputedCharacteristic
NoneV == [t |-> "None", s |-> "", n |-> 0]

StrV(s) == [t |-> "str", s |-> s, n |-> 0]

NumV(n) == [t |-> "num", s |-> "", n |-> n]

Digits == <<"0", "1", "2", "3", "4", "5", "6", "7", "8", "9">>

\* float(number): a literal is parsed from its decimal numeral, a stored
\* number is converted as it is
float(v) ==
    IF v.t = "str"
    THEN (CHOOSE k \in 1..Len(Digits) : Digits[k] = v.s) - 1
    ELSE v.n

RECURSIVE GCD(_, _)
GCD(a, b) == IF b = 0 THEN a ELSE GCD(b, a % b)

\* the result slot: None, the int 0 that Sum starts from, a float n/d, a bool
NoneR == [t |-> "None", n |-> 0, d |-> 1]

IntR(n) == [t |-> "int", n |-> n, d |-> 1]

FloatR(n, d) ==
    LET g == GCD(n, d)
    IN  [t |-> "float", n |-> n \div g, d |-> d \div g]

BoolR(b) == [t |-> "bool", n |-> IF b THEN 1 ELSE 0, d |-> 1]

(***************************************************************************)
(* Districts, plans and the keyword arguments of compute.                  *)
(***************************************************************************)
Subjects == {"pop", "vap"}

Numbers == 1..MaxNumber

\* one row of district.computedcharacteristic_set
CCs == [subject : Subjects, number : Numbers]

RECURSIVE SeqsUpTo(_, _)
SeqsUpTo(S, n) ==
    IF n = 0 THEN {<<>>}
    ELSE LET shorter == SeqsUpTo(S, n - 1)
         IN  shorter \cup {Append(q, x) : q \in {p \in shorter : Len(p) = n - 1}, x \in S}

CCLists == SeqsUpTo(CCs, MaxCC)

PlanCCLists == SeqsUpTo(CCs, MaxPlanCC)

NoGeom == [present |-> FALSE, area |-> 0, length |-> 0]

\* geometries: area = area * pi, length = length * pi; the isoperimetric
\* inequality length^2 >= 4 * pi * area bounds what a geometry can be
Geoms ==
    {NoGeom} \cup
    {g \in [present : {TRUE}, area : {0, 1}, length : {0, 2, 4}] :
        g.length * g.length >= 4 * g.area}

NoDistrict == [some |-> FALSE, geom |-> NoGeom, ccs |-> <<>>]

\* a district passed to compute or get_value.  No calculator reads both the
\* geometry and the measurements of a district, so a district here has one of
\* the two and lacks the other
Districts ==
    {d \in [some : {TRUE}, geom : Geoms, ccs : CCLists] :
        d.geom = NoGeom \/ d.ccs = <<>>}

\* a district as get_districts_at_version(version, include_geom=False) gives it
PlanDistricts == [some : {TRUE}, geom : {NoGeom}, ccs : PlanCCLists]

Plans == SeqsUpTo(PlanDistricts, MaxDistricts)

\* **kwargs of compute: the key that is present, and its value.  The value
\* of kwargs['district'] and of kwargs['plan'] is read by the calculators;
\* kwargs['plans'] is only tested for presence and its value never evaluated,
\* so it carries none here; "none" is a call with none of the three keys
Kwargs ==
    {[key |-> "district", district |-> d, plan |-> <<>>] : d \in Districts}
    \cup {[key |-> "plan", district |-> NoDistrict, plan |-> p] : p \in Plans}
    \cup {[key |-> "plans", district |-> NoDistrict, plan |-> <<>>]}
    \cup {[key |-> "none", district |-> NoDistrict, plan |-> <<>>]}

(***************************************************************************)
(* Argument dictionaries.                                                  *)
(***************************************************************************)
\* 'value%d' % argnum
ValueName(argnum) == "value" \o Digits[argnum + 1]

ValueNames == {ValueName(k) : k \in 1..MaxArgs}

ArgNames == {"numerator", "denominator", "value", "threshold", "min", "max"}
            \cup ValueNames

Classes == {"Schwartzberg", "Sum", "Percent", "Threshold", "Range"}

\* the argument names the configuration gives a calculator of each class
KeysOf(c) ==
    CASE c = "Sum" -> ValueNames
      [] c = "Percent" -> {"numerator", "denominator"}
      [] c = "Threshold" -> {"value", "threshold"}
      [] c = "Range" -> {"value", "min", "max"}
      [] OTHER -> {"value"}

Absent == [present |-> FALSE, argtype |-> "", argval |-> ""]

LiteralStrings == {"0", "1"}

\* the (argtype, argval) tuples of the configuration
ArgTuples ==
    [present : {TRUE}, argtype : {"literal"}, argval : LiteralStrings]
    \cup [present : {TRUE}, argtype : {"subject"}, argval : Subjects]

\* arg_dict = {}
EmptyDict == [a \in ArgNames |-> Absent]

\* argument in self.arg_dict
Has(d, argument) == argument \in ArgNames /\ d[argument].present

\* self.arg_dict of instance i
ArgsOf(i) == dicts[arg_dict[i]]

(***************************************************************************)
(* CalculatorBase.get_value and the renderers.                             *)
(***************************************************************************)
\* district.computedcharacteristic_set.filter(subject__name=argval)
filter(ccs, argval) == SelectSeq(ccs, LAMBDA row : row.subject = argval)

\* get_value taking the last matching row instead of cc[0]
get_value_last(args, argument, district) ==
    LET argtype == args[argument].argtype
        argval == args[argument].argval
    IN  IF argtype = "literal"
        THEN StrV(argval)
        ELSE IF argtype = "subject" /\ district.some
        THEN LET cc == filter(district.ccs, argval)
             IN  IF Len(cc) = 0 THEN NoneV ELSE NumV(cc[Len(cc)].number)
        ELSE NoneV

\* CalculatorBase.get_value, for an argument that is in the dictionary
\* (self.arg_dict[argument] raises KeyError otherwise, see KeyErrorIn)
get_value(args, argument, district) ==
    LET argtype == args[argument].argtype
        argval == args[argument].argval
    IN  IF argtype = "literal"
        THEN StrV(argval)
        ELSE IF argtype = "subject" /\ district.some
        THEN LET cc == filter(district.ccs, argval)
             IN  IF Len(cc) = 0 THEN NoneV ELSE NumV(cc[1].number)
        ELSE NoneV

\* self.arg_dict[argument] raises KeyError for one of the arguments read
KeyErrorIn(args, arguments) == \E a \in arguments : ~Has(args, a)

\* html() gives a string; wrap is the element around the text, na says that
\* the text is "n/a", val is the value the text is formatted from
NoOut == [wrap |-> "", na |-> FALSE, val |-> NoneR]

\* CalculatorBase.html
CalculatorBase_html(res) ==
    IF ~(res = NoneR)
    THEN [wrap |-> "span", na |-> FALSE, val |-> res]
    ELSE [wrap |-> "span", na |-> TRUE, val |-> NoneR]

\* the truth value of self.result: None, 0, 0.0 and False are false
Truthy(res) == res.t # "None" /\ res.n # 0

\* "%0.2f%%" % (self.result * 100): hundredths of a percent, rounded
Percentage(res) == IntR((2 * 10000 * res.n + res.d) \div (2 * res.d))

\* Schwartzberg.html
Schwartzberg_html(res) ==
    IF Truthy(res)
    THEN [wrap |-> "", na |-> FALSE, val |-> Percentage(res)]
    ELSE [wrap |-> "", na |-> TRUE, val |-> NoneR]

(***************************************************************************)
(* compute of each class, as the pair (self.result afterwards, exception). *)
(* old is self.result before the call.                                     *)
(***************************************************************************)
Outcome(res, exc) == [result |-> res, exc |-> exc]

\* a bare `return`: self.result is not assigned
Return(old) == Outcome(old, "none")

Raise(old, exc) == Outcome(old, exc)

\* sqrt of a perfect square
sqrt(x) == CHOOSE r \in 0..x : r * r = x

\* Schwartzberg.compute
Schwartzberg_compute(args, old, kw) ==
    IF kw.key # "district" THEN Return(old)
    ELSE IF ~kw.district.geom.present THEN Return(old)
    ELSE LET r == sqrt(kw.district.geom.area)
             perimeter == 2 * r
         IN  IF kw.district.geom.length = 0
             THEN Raise(old, "ZeroDivisionError")
             ELSE Outcome(FloatR(perimeter, kw.district.geom.length), "none")

\* self.result += float(number)
AddFloat(acc, x) == FloatR(acc.n + x * acc.d, acc.d)

\* the loop going on past an index that is not in the dictionary
RECURSIVE SumWhile_pastgap(_, _, _, _)
SumWhile_pastgap(args, district, argnum, acc) ==
    IF argnum > MaxArgs THEN acc
    ELSE IF Has(args, ValueName(argnum))
    THEN LET number == get_value(args, ValueName(argnum), district)
         IN  SumWhile_pastgap(args, district, argnum + 1,
                              IF ~(number = NoneV) THEN AddFloat(acc, float(number)) ELSE acc)
    ELSE SumWhile_pastgap(args, district, argnum + 1, acc)

\* the while loop of Sum.compute over value1, value2, ... for one district
RECURSIVE SumWhile(_, _, _, _)
SumWhile(args, district, argnum, acc) ==
    IF Has(args, ValueName(argnum))
    THEN LET number == get_value(args, ValueName(argnum), district)
         IN  SumWhile(args, district, argnum + 1,
                      IF ~(number = NoneV) THEN AddFloat(acc, float(number)) ELSE acc)
    ELSE acc

\* the for loop of Sum.compute over the districts, from the k-th on
RECURSIVE SumFor(_, _, _, _)
SumFor(args, districts, k, acc) ==
    IF k > Len(districts) THEN acc
    ELSE SumFor(args, districts, k + 1, SumWhile(args, districts[k], 1, acc))

\* Sum.compute without `self.result = 0`: it adds to the result it finds
Sum_compute_accumulate(args, old, kw) ==
    LET start == IF old = NoneR THEN IntR(0) ELSE old
    IN  IF kw.key = "district"
        THEN Outcome(SumFor(args, <<kw.district>>, 1, start), "none")
        ELSE IF kw.key = "plan"
        THEN Outcome(SumFor(args, kw.plan, 1, start), "none")
        ELSE Return(old)

\* Sum.compute
Sum_compute(args, old, kw) ==
    IF kw.key = "district"
    THEN Outcome(SumFor(args, <<kw.district>>, 1, IntR(0)), "none")
    ELSE IF kw.key = "plan"
    THEN Outcome(SumFor(args, kw.plan, 1, IntR(0)), "none")
    ELSE Return(old)

\* the loop adding the numerator before it tests for a missing value
RECURSIVE PercentFor_numfirst(_, _, _, _)
PercentFor_numfirst(args, districts, k, acc) ==
    IF k > Len(districts) \/ acc.exc # "none" THEN acc
    ELSE IF KeyErrorIn(args, {"numerator", "denominator"})
    THEN [acc EXCEPT !.exc = "KeyError"]
    ELSE LET tmpnum == get_value(args, "numerator", districts[k])
             tmpden == get_value(args, "denominator", districts[k])
             added == IF tmpnum = NoneV THEN acc
                      ELSE [acc EXCEPT !.num = @ + float(tmpnum)]
         IN  IF tmpnum = NoneV \/ tmpden = NoneV
             THEN PercentFor_numfirst(args, districts, k + 1, added)
             ELSE PercentFor_numfirst(args, districts, k + 1,
                                      [added EXCEPT !.den = @ + float(tmpden)])

\* the for loop of Percent.compute over the districts of a plan, from the
\* k-th on; acc holds num, den and the exception raised so far
RECURSIVE PercentFor(_, _, _, _)
PercentFor(args, districts, k, acc) ==
    IF k > Len(districts) \/ acc.exc # "none" THEN acc
    ELSE IF KeyErrorIn(args, {"numerator", "denominator"})
    THEN [acc EXCEPT !.exc = "KeyError"]
    ELSE LET tmpnum == get_value(args, "numerator", districts[k])
             tmpden == get_value(args, "denominator", districts[k])
         IN  IF tmpnum = NoneV \/ tmpden = NoneV
             THEN PercentFor(args, districts, k + 1, acc)
             ELSE PercentFor(args, districts, k + 1,
                             [acc EXCEPT !.den = @ + float(tmpden),
                                         !.num = @ + float(tmpnum)])

\* self.result = float(num) / float(den)
Divide(old, num, den) ==
    IF den = 0 THEN Raise(old, "ZeroDivisionError")
    ELSE Outcome(FloatR(num, den), "none")

\* Percent.compute
Percent_compute(args, old, kw) ==
    IF kw.key = "district"
    THEN IF KeyErrorIn(args, {"numerator", "denominator"})
         THEN Raise(old, "KeyError")
         ELSE LET num == get_value(args, "numerator", kw.district)
                  den == get_value(args, "denominator", kw.district)
              IN  IF num = NoneV \/ den = NoneV THEN Return(old)
                  ELSE Divide(old, float(num), float(den))
    ELSE IF kw.key = "plan"
    THEN LET acc == PercentFor(args, kw.plan, 1, [num |-> 0, den |-> 0, exc |-> "none"])
         IN  IF acc.exc # "none" THEN Raise(old, acc.exc)
             ELSE Divide(old, acc.num, acc.den)
    ELSE Return(old)

\* Threshold.compute
Threshold_compute(args, old, kw) ==
    IF kw.key \notin {"district", "plans"} THEN Return(old)
    ELSE IF KeyErrorIn(args, {"value", "threshold"}) THEN Raise(old, "KeyError")
    ELSE LET district == IF kw.key = "district" THEN kw.district ELSE NoDistrict
             val == get_value(args, "value", district)
             thr == get_value(args, "threshold", district)
         IN  IF val = NoneV \/ thr = NoneV THEN Return(old)
             ELSE Outcome(BoolR(float(val) > float(thr)), "none")

\* Range.compute with the lower bound inclusive
Range_compute_inclusive(args, old, kw) ==
    IF kw.key \notin {"district", "plans"} THEN Return(old)
    ELSE IF KeyErrorIn(args, {"value", "min", "max"}) THEN Raise(old, "KeyError")
    ELSE LET district == IF kw.key = "district" THEN kw.district ELSE NoDistrict
             val == get_value(args, "value", district)
             minval == get_value(args, "min", district)
             maxval == get_value(args, "max", district)
         IN  IF val = NoneV \/ minval = NoneV \/ maxval = NoneV THEN Return(old)
             ELSE Outcome(BoolR(float(val) >= float(minval)
                                /\ float(val) < float(maxval)), "none")

\* Range.compute
Range_compute(args, old, kw) ==
    IF kw.key \notin {"district", "plans"} THEN Return(old)
    ELSE IF KeyErrorIn(args, {"value", "min", "max"}) THEN Raise(old, "KeyError")
    ELSE LET district == IF kw.key = "district" THEN kw.district ELSE NoDistrict
             val == get_value(args, "value", district)
             minval == get_value(args, "min", district)
             maxval == get_value(args, "max", district)
         IN  IF val = NoneV \/ minval = NoneV \/ maxval = NoneV THEN Return(old)
             ELSE Outcome(BoolR(float(val) > float(minval)
                                /\ float(val) < float(maxval)), "none")

(***************************************************************************)
(* The state machine.                                                      *)
(***************************************************************************)
NoKw == [key |-> "none", district |-> NoDistrict, plan |-> <<>>]

NoCall == [op |-> "init", inst |-> 0, kw |-> NoKw, argument |-> "", rep |-> FALSE]

NoRet == [exc |-> "none", value |-> NoneV, out |-> NoOut]

\* the identity of the dictionary of the class attribute CalculatorBase.arg_dict
ClassDict == 0

\* the instances: instance i is of class classes[i].  Sum, Percent, Threshold
\* and Range assign a new dictionary in __init__; Schwartzberg defines no
\* __init__, so self.arg_dict and self.result are the class attributes
Construct(classes) ==
    /\ cls = classes
    /\ arg_dict = [i \in DOMAIN classes |->
                     IF classes[i] = "Schwartzberg" THEN ClassDict ELSE i]
    /\ dicts = [id \in {ClassDict} \cup {i \in DOMAIN classes : classes[i] # "Schwartzberg"}
                  |-> EmptyDict]
    /\ result = [i \in DOMAIN classes |-> NoneR]
    /\ call = NoCall
    /\ ret = NoRet

\* calculator.arg_dict[argument] = (argtype, argval), done by the caller
\* that configures a calculator
SetArg(i, argument, tuple) ==
    /\ dicts' = [dicts EXCEPT ![arg_dict[i]][argument] = tuple]
    /\ call' = [NoCall EXCEPT !.op = "set", !.inst = i, !.argument = argument]
    /\ ret' = NoRet
    /\ UNCHANGED <<cls, arg_dict, result>>

\* the call repeats the call before it: same instance, same keyword arguments
\* and no other operation in between
Repeats(i, kw) == call.op = "compute" /\ call.inst = i /\ call.kw = kw

\* calculator.compute(**kw), dispatched on the class of the instance
Dispatch(c, args, old, kw) ==
    CASE c = "Schwartzberg" -> Schwartzberg_compute(args, old, kw)
      [] c = "Sum" -> Sum_compute(args, old, kw)
      [] c = "Percent" -> Percent_compute(args, old, kw)
      [] c = "Threshold" -> Threshold_compute(args, old, kw)
      [] c = "Range" -> Range_compute(args, old, kw)

Compute(i, kw) ==
    LET o == Dispatch(cls[i], ArgsOf(i), result[i], kw)
    IN  /\ result' = [result EXCEPT ![i] = o.result]
        /\ call' = [NoCall EXCEPT !.op = "compute", !.inst = i, !.kw = kw,
                                  !.rep = Repeats(i, kw)]
        /\ ret' = [NoRet EXCEPT !.exc = o.exc]
        /\ UNCHANGED <<cls, arg_dict, dicts>>

\* calculator.html(): Schwartzberg overrides the renderer of the base class
Html(i) ==
    /\ call' = [NoCall EXCEPT !.op = "html", !.inst = i]
    /\ ret' = [NoRet EXCEPT !.out = IF cls[i] = "Schwartzberg"
                                    THEN Schwartzberg_html(result[i])
                                    ELSE CalculatorBase_html(result[i])]
    /\ UNCHANGED <<cls, arg_dict, dicts, result>>

\* calculator.get_value(argument, district) called directly
GetValue(i, argument, district) ==
    /\ call' = [NoCall EXCEPT !.op = "get_value", !.inst = i, !.argument = argument,
                              !.kw = [NoKw EXCEPT !.district = district]]
    /\ ret' = IF Has(ArgsOf(i), argument)
              THEN [NoRet EXCEPT !.value = get_value(ArgsOf(i), argument, district)]
              ELSE [NoRet EXCEPT !.exc = "KeyError"]
    /\ UNCHANGED <<cls, arg_dict, dicts, result>>

Insts == DOMAIN cls

\* one calculator of any class, configured, computed and rendered
Init == \E c \in Classes : Construct(<<c>>)

Configure ==
    \E i \in Insts : \E a \in KeysOf(cls[i]), t \in ArgTuples : SetArg(i, a, t)

Score == \E i \in Insts, kw \in Kwargs : Compute(i, kw)

Render == \E i \in Insts : Html(i)

Next == Configure \/ Score \/ Render

Spec == Init /\ [][Next]_vars

\* one calculator whose arguments are resolved directly; get_value is the
\* base class's for every class, so one class with two arguments stands for all
InitResolve == Construct(<<"Percent">>)

Resolve ==
    \E i \in Insts : \E a \in KeysOf(cls[i]), d \in Districts \cup {NoDistrict} :
        GetValue(i, a, d)

NextResolve == Configure \/ Resolve

SpecResolve == InitResolve /\ [][NextResolve]_vars

\* two calculators of any two classes, configured with literal arguments and
\* computed over districts and plans that carry no measurements
ShareTuples == {t \in ArgTuples : t.argtype = "literal" /\ t.argval = "1"}

ShareKwargs ==
    {kw \in Kwargs : /\ kw.district.ccs = <<>>
                     /\ \A k \in 1..Len(kw.plan) : kw.plan[k].ccs = <<>>}

InitShare == \E c1 \in Classes, c2 \in Classes : Construct(<<c1, c2>>)

ConfigureShare ==
    \E i \in Insts : \E a \in KeysOf(cls[i]), t \in ShareTuples : SetArg(i, a, t)

ScoreShare == \E i \in Insts, kw \in ShareKwargs : Compute(i, kw)

NextShare == ConfigureShare \/ ScoreShare

SpecShare == InitShare /\ [][NextShare]_vars

(***************************************************************************)
(* What the claims speak of, stated from the claims' words and not from    *)
(* the operators above.                                                    *)
(***************************************************************************)
\* the instance of the last operation and its argument mapping
me == call.inst

MyArgs == ArgsOf(me)

\* the last operation was compute on a calculator of class c with scope key
Called(c, key) == call.op = "compute" /\ cls[me] = c /\ call.kw.key = key

\* the rows of a district whose subject name is name
Matching(district, name) ==
    {k \in 1..Len(district.ccs) : district.ccs[k].subject = name}

First(S) == CHOOSE k \in S : \A j \in S : k <= j

IsLiteral(args, a) == Has(args, a) /\ args[a].argtype = "literal"

IsSubjectRef(args, a) == Has(args, a) /\ args[a].argtype = "subject"

\* argument a resolves for the district: a Literal always, a SubjectRef when
\* the district is there and has a measurement of that subject
Resolves(args, a, district) ==
    \/ IsLiteral(args, a)
    \/ /\ IsSubjectRef(args, a)
       /\ district.some
       /\ Matching(district, args[a].argval) # {}

\* the number a literal's numeral denotes
Numeral(str) == CASE str = "0" -> 0 [] str = "1" -> 1 [] str = "2" -> 2

\* the number argument a resolves to
NumberOf(args, a, district) ==
    IF IsLiteral(args, a) THEN Numeral(args[a].argval)
    ELSE district.ccs[First(Matching(district, args[a].argval))].number

\* f[1] + ... + f[n]
RECURSIVE Total(_, _)
Total(f, n) == IF n = 0 THEN 0 ELSE f[n] + Total(f, n - 1)

\* the arguments a calculator of class c reads by name
RequiredKeys(c) ==
    CASE c = "Percent" -> {"numerator", "denominator"}
      [] c = "Threshold" -> {"value", "threshold"}
      [] c = "Range" -> {"value", "min", "max"}
      [] OTHER -> {}

Configured(i) == \A a \in RequiredKeys(cls[i]) : Has(ArgsOf(i), a)

(***************************************************************************)
(* C1                                                                      *)
(***************************************************************************)
\* the districts of the plan for which both numerator and denominator resolve
BothResolve(args, plan) ==
    {k \in 1..Len(plan) : /\ Resolves(args, "numerator", plan[k])
                          /\ Resolves(args, "denominator", plan[k])}

\* the total of argument a over those districts
PlanTotal(args, a, plan) ==
    Total([k \in 1..Len(plan) |->
             IF k \in BothResolve(args, plan) THEN NumberOf(args, a, plan[k]) ELSE 0],
          Len(plan))

\* C1: Percent.compute with a plan scope sets the result to (sum of numerator)
\* / (sum of denominator), both sums over exactly the districts for which both
\* arguments resolve, dividing once on the totals.  The quotient exists when the
\* total of the denominators is not 0; the plans where it is 0 are C2's.
C1_PercentPlanRatioOfTotals ==
    Called("Percent", "plan") =>
        LET N == PlanTotal(MyArgs, "numerator", call.kw.plan)
            D == PlanTotal(MyArgs, "denominator", call.kw.plan)
        IN  D # 0 => /\ ret.exc = "none"
                     /\ result[me].t = "float"
                     /\ result[me].n * D = N * result[me].d

\* a Percent computed over a plan of two districts that both resolve, with the
\* totals 2 and 3: the result is 2/3 (the per-district ratios are 1/1 and 1/2,
\* whose average is 3/4)
C1_Witness ==
    /\ Called("Percent", "plan")
    /\ BothResolve(MyArgs, call.kw.plan) = {1, 2}
    /\ PlanTotal(MyArgs, "numerator", call.kw.plan) = 2
    /\ PlanTotal(MyArgs, "denominator", call.kw.plan) = 3
    /\ result[me] = [t |-> "float", n |-> 2, d |-> 3]

(***************************************************************************)
(* C2                                                                      *)
(***************************************************************************)
\* a SubjectRef argument the calculator reads has no measurement on the district
LacksMeasurement(i, district) ==
    \E a \in RequiredKeys(cls[i]) \cup {v \in ValueNames : Has(ArgsOf(i), v)} :
        IsSubjectRef(ArgsOf(i), a) /\ ~Resolves(ArgsOf(i), a, district)

\* the missing-data cases of a compute call: on a district, a SubjectRef
\* argument without a measurement, or no geometry for the calculator that
\* reads it; on a plan, every district lacking a measurement, which a plan
\* with no districts does too
MissingData ==
    /\ call.op = "compute"
    /\ Configured(me)
    /\ \/ /\ call.kw.key = "district"
          /\ \/ LacksMeasurement(me, call.kw.district)
             \/ cls[me] = "Schwartzberg" /\ ~call.kw.district.geom.present
       \/ /\ call.kw.key = "plan"
          /\ \A k \in 1..Len(call.kw.plan) : LacksMeasurement(me, call.kw.plan[k])

\* C2: for every calculator and for both scopes, compute raises no exception
\* in a missing-data case (a SubjectRef argument with no matching measurement,
\* a district without geometry, a plan whose districts all lack the
\* measurement, a plan with no districts): the call returns normally.
C2_NoExceptionOnMissingData == MissingData => ret.exc = "none"

(***************************************************************************)
(* C3                                                                      *)
(***************************************************************************)
\* the K of value1..valueK: the arguments before the first index that is not
\* in the argument mapping
Contiguous(args) ==
    CHOOSE K \in 0..MaxArgs :
        /\ \A j \in 1..K : Has(args, ValueName(j))
        /\ ~Has(args, ValueName(K + 1))

\* the sum of value1..valueK for one district, an unresolved value giving 0
DistrictSum(args, district) ==
    Total([j \in 1..Contiguous(args) |->
             IF Resolves(args, ValueName(j), district)
             THEN NumberOf(args, ValueName(j), district) ELSE 0],
          Contiguous(args))

\* the districts a Sum call ranges over
Scoped(kw) == IF kw.key = "district" THEN <<kw.district>> ELSE kw.plan

\* C3: Sum.compute reads value1, value2, ... in increasing order and stops at
\* the first index not in the argument mapping; the result is the sum of the
\* resolved values of value1..valueK over the district (district scope) or over
\* every district of the plan (plan scope), an unresolved value contributing 0.
C3_SumOfContiguousValues ==
    (Called("Sum", "district") \/ Called("Sum", "plan")) =>
        LET districts == Scoped(call.kw)
        IN  /\ ret.exc = "none"
            /\ result[me].t \in {"int", "float"}
            /\ result[me].d = 1
            /\ result[me].n = Total([k \in 1..Len(districts) |->
                                       DistrictSum(MyArgs, districts[k])],
                                    Len(districts))

\* a Sum with value1 and value3 but no value2, over a plan of two districts in
\* which value1 resolves once and value3 would resolve to more than 0: the
\* result is value1's number alone
C3_Witness ==
    /\ Called("Sum", "plan")
    /\ Len(call.kw.plan) = 2
    /\ Has(MyArgs, "value1") /\ ~Has(MyArgs, "value2") /\ Has(MyArgs, "value3")
    /\ IsSubjectRef(MyArgs, "value1")
    /\ Resolves(MyArgs, "value1", call.kw.plan[1])
    /\ ~Resolves(MyArgs, "value1", call.kw.plan[2])
    /\ Resolves(MyArgs, "value3", call.kw.plan[1])
    /\ NumberOf(MyArgs, "value3", call.kw.plan[1]) > 0
    /\ result[me] = [t |-> "float", n |-> 2, d |-> 1]

(***************************************************************************)
(* C4                                                                      *)
(***************************************************************************)
\* C4: Threshold.compute and Range.compute with a plan scope (the key 'plan'
\* or the key 'plans', no district) compute nothing, whatever the kinds of the
\* arguments: a result slot that is unset before such a call is unset after it.
C4_PlanScopeStoresNothing ==
    [][(/\ call'.op = "compute"
        /\ cls[call'.inst] \in {"Threshold", "Range"}
        /\ call'.kw.key \in {"plan", "plans"}
        /\ result[call'.inst] = NoneR)
       => result'[call'.inst] = NoneR]_vars

(***************************************************************************)
(* C5                                                                      *)
(***************************************************************************)
\* the scope keys under which a class computes
Supported(c) ==
    CASE c = "Schwartzberg" -> {"district"}
      [] c = "Sum" -> {"district", "plan"}
      [] c = "Percent" -> {"district", "plan"}
      [] OTHER -> {"district"}

\* the last call abstained: its scope is not one the class computes under
\* (Threshold and Range under 'plans' are C4's), the geometry is absent, or an
\* argument is unresolved for the district
Abstained ==
    /\ call.op = "compute"
    /\ Configured(me)
    /\ \/ call.kw.key \notin Supported(cls[me]) \cup {"plans"}
       \/ call.kw.key = "plans" /\ cls[me] \notin {"Threshold", "Range"}
       \/ /\ call.kw.key = "district"
          /\ \/ cls[me] = "Schwartzberg" /\ ~call.kw.district.geom.present
             \/ \E a \in RequiredKeys(cls[me]) : ~Resolves(MyArgs, a, call.kw.district)

\* C5: each compute call is independent of the earlier ones on the instance:
\* if the last call abstained, the result slot is unset, also when an earlier
\* call had stored a result.
C5_AbstentionLeavesUnset == Abstained => result[me] = NoneR

(***************************************************************************)
(* C6                                                                      *)
(***************************************************************************)
\* C6: compute called twice in a row with the same scope, the same argument
\* mapping and the same district or plan data leaves the result slot after the
\* second call as it was after the first.
C6_Idempotent ==
    [][(/\ call.op = "compute"
        /\ call'.op = "compute"
        /\ call'.inst = call.inst
        /\ call'.kw = call.kw
        /\ dicts' = dicts)
       => result' = result]_vars

\* a Sum computed a second time over the same plan, its result more than 0
C6_Witness ==
    /\ Called("Sum", "plan")
    /\ call.rep
    /\ result[me].n > 0

(***************************************************************************)
(* C7                                                                      *)
(***************************************************************************)
\* C7: an instance owns its argument mapping and its result slot: setting an
\* entry of one instance's mapping, or computing on one instance, changes no
\* other instance's mapping or result.
C7_InstancesShareNothing ==
    [][\A i \in Insts, j \in Insts :
          (i # j /\ call'.inst = i)
          => (ArgsOf(j)' = ArgsOf(j) /\ result'[j] = result[j])]_vars

(***************************************************************************)
(* C8                                                                      *)
(***************************************************************************)
\* C8: the HTML rendering is the "n/a" form if and only if the result slot is
\* unset, for CalculatorBase.html and for Schwartzberg.html: a computed zero or
\* false is rendered as a value.
C8_NaIffUnset == call.op = "html" => (ret.out.na <=> result[me] = NoneR)

(***************************************************************************)
(* C9                                                                      *)
(***************************************************************************)
\* C9: get_value returns the literal value for a Literal argument, with or
\* without a district; for a SubjectRef argument with a district, the value of
\* the district's first measurement of that subject, or None when there is
\* none; and None for a SubjectRef argument without a district.
C9_GetValue ==
    (call.op = "get_value" /\ Has(MyArgs, call.argument)) =>
        LET a == call.argument
            district == call.kw.district
            rows == Matching(district, MyArgs[a].argval)
        IN  /\ ret.exc = "none"
            /\ IsLiteral(MyArgs, a) => ret.value = StrV(MyArgs[a].argval)
            /\ (IsSubjectRef(MyArgs, a) /\ district.some /\ rows # {})
                  => ret.value = NumV(district.ccs[First(rows)].number)
            /\ (IsSubjectRef(MyArgs, a) /\ district.some /\ rows = {})
                  => ret.value = NoneV
            /\ (IsSubjectRef(MyArgs, a) /\ ~district.some) => ret.value = NoneV

\* a SubjectRef resolved on a district with two measurements of the subject
\* that differ: the first one's number is returned
C9_Witness ==
    /\ call.op = "get_value"
    /\ IsSubjectRef(MyArgs, call.argument)
    /\ Matching(call.kw.district, MyArgs[call.argument].argval) = {1, 2}
    /\ call.kw.district.ccs[1].number # call.kw.district.ccs[2].number
    /\ ret.value = NumV(call.kw.district.ccs[1].number)

(***************************************************************************)
(* C10                                                                     *)
(***************************************************************************)
\* C10: Range.compute with a district scope sets the result to the boolean
\* min < value < max, both bounds exclusive; if any of value, min and max is
\* unresolved for the district, the call stores no result.
C10_RangeExclusive ==
    [][(/\ call'.op = "compute"
        /\ cls[call'.inst] = "Range"
        /\ call'.kw.key = "district")
       => LET i == call'.inst
              d == call'.kw.district
              args == ArgsOf(i)
          IN  IF \A a \in {"value", "min", "max"} : Resolves(args, a, d)
              THEN result'[i] =
                     BoolR(/\ NumberOf(args, "min", d) < NumberOf(args, "value", d)
                           /\ NumberOf(args, "value", d) < NumberOf(args, "max", d))
              ELSE result'[i] = result[i]]_vars

\* a Range computed on a district where value equals min and is below max:
\* the result is False
C10_Witness ==
    /\ Called("Range", "district")
    /\ \A a \in {"value", "min", "max"} : Resolves(MyArgs, a, call.kw.district)
    /\ NumberOf(MyArgs, "value", call.kw.district) = NumberOf(MyArgs, "min", call.kw.district)
    /\ NumberOf(MyArgs, "value", call.kw.district) < NumberOf(MyArgs, "max", call.kw.district)
    /\ result[me] = BoolR(FALSE)

====
